---- MODULE Spec2Model ----
(***************************************************************************)
(* A state-machine model of the CHIP-8 interpreter kevhlee/chip8:          *)
(* VirtualMachine (vm.rs), Display (display.rs), Keyboard (keyboard.rs),   *)
(* Timer (timer.rs), Sound (sound.rs) and the calls start() (mod.rs)       *)
(* makes on them.                                                          *)
(***************************************************************************)
EXTENDS Integers, Sequences, FiniteSets, TLC

\* ------------------------------------------------------------------------
\* Program constants
\* ------------------------------------------------------------------------

\* vm.rs:52  memory: [u8; 0x1000]
MEMORY_SIZE == 4096

\* vm.rs:45
PROGRAM_START_ADDRESS == 512

\* vm.rs:44
FONT_SIZE == 5

\* vm.rs:53  stack: [u16; 0x10]
STACK_SIZE == 16

\* vm.rs:51  v: [u8; 0x10]
NUM_REGISTERS == 16

\* keyboard.rs:2  keys: [bool; 0x10]
NUM_KEYS == 16

\* display.rs:3-4
DISPLAY_WIDTH == 64

DISPLAY_HEIGHT == 32

\* vm.rs:25-42
FONTS ==
    << 240, 144, 144, 144, 240,
        32,  96,  32,  32, 112,
       240,  16, 240, 128, 240,
       240,  16, 240,  16, 240,
       144, 144, 240,  16,  16,
       240, 128, 240,  16, 240,
       240, 128, 240, 144, 240,
       240,  16,  32,  64,  64,
       240, 144, 240, 144, 240,
       240, 144, 240,  16, 240,
       240, 144, 240, 144, 144,
       224, 144, 224, 144, 224,
       240, 128, 128, 128, 240,
       224, 144, 144, 144, 224,
       240, 128, 240, 128, 240,
       240, 128, 240, 128, 128 >>

\* The strings of the Err values (vm.rs:82, 138, 159), the Ok value, and the
\* outcome of a Rust panic (an out-of-range index, or an arithmetic overflow
\* in a build with overflow checks), which ends the process.
OK == "Ok"

ERR_TOO_MANY_BYTES == "Too many bytes"

ERR_EMPTY_CALL_STACK == "Empty call stack"

ERR_CALL_STACK_OVERFLOW == "Call stack overflow"

PANIC == "panic"

NONE == "none"

\* No key was pressed since the latest step.
NO_EVENT == -1
NOT_WRITTEN == -1
DEFAULT_TPS == 12
AT_EVENTS == "events"
AT_SOUND == "sound"
AT_STEPS == "steps"
AT_END == "ended"
MANY_EVENTS == -2

\* ------------------------------------------------------------------------
\* u8 / u16 arithmetic
\* ------------------------------------------------------------------------

U8 == 256

U16 == 65536

Bit(b, k) == (b \div (2 ^ k)) % 2

\* Rust's & | ^ on u8, bit by bit.
BitAnd(a, b) ==
    LET f[k \in 0..8] == IF k = 8 THEN 0 ELSE (Bit(a, k) * Bit(b, k)) * (2 ^ k) + f[k + 1]
    IN  f[0]

BitOr(a, b) ==
    LET f[k \in 0..8] ==
            IF k = 8 THEN 0
            ELSE (IF Bit(a, k) + Bit(b, k) > 0 THEN 1 ELSE 0) * (2 ^ k) + f[k + 1]
    IN  f[0]

BitXor(a, b) ==
    LET f[k \in 0..8] ==
            IF k = 8 THEN 0 ELSE ((Bit(a, k) + Bit(b, k)) % 2) * (2 ^ k) + f[k + 1]
    IN  f[0]

\* ------------------------------------------------------------------------
\* Opcode field decoding (vm.rs:5-23)
\* ------------------------------------------------------------------------

decode_x(opcode) == (opcode \div 256) % 16

decode_y(opcode) == (opcode \div 16) % 16

decode_addr(opcode) == opcode % 4096

decode_byte(opcode) == opcode % 256

decode_nibb(opcode) == opcode % 16

\* ------------------------------------------------------------------------
\* State
\* ------------------------------------------------------------------------

VARIABLES
    i,               \* VirtualMachine.i        (u16)
    pc,              \* VirtualMachine.pc       (u16)
    sp,              \* VirtualMachine.sp       (u8)
    v,               \* VirtualMachine.v        ([u8; 16])
    memory,          \* VirtualMachine.memory   ([u8; 4096]), as the map of its
                     \*   non-zero bytes: an address not in it holds 0
    stack,           \* VirtualMachine.stack    ([u16; 16])
    timer,           \* Timer.value             (u8)
    sound,           \* Sound.value             (u8)
    buffer,          \* Display.buffer          ([bool; 64 * 32]), as the set of
                     \*   the indices that hold true
    keys,            \* Keyboard.keys           ([bool; 16])
    polling,         \* Keyboard.polling
    last_pressed,    \* Keyboard.last_pressed   (i16, -1: none)
    loaded,          \* start(): load_bytes has returned Ok, the loop runs
    result,          \* what the latest load_bytes / step call returned
    hist,            \* history: the latest two step() calls, newest first
    calls,           \* history: the return addresses of the CALLs not yet returned from
    event,           \* history: the key of the latest event since the latest step()
                     \*   call that turned a key from released to pressed (-1: none)
    written,         \* history: the value last written to each countdown by
                     \*   Fx15 / Fx18 (-1: not written yet)
    ticks,           \* history: the step() calls of each countdown since that
                     \*   write, counted up to MaxTicks
    tps,             \* Options.tps
    phase,           \* start(): the statement of the loop body that runs next
    steps_done,      \* start(): the iterations done of `for _ in 0..opts.tps`
    tally,           \* history: the timer.step(), sound.step() and vm.step()
                     \*   calls of the current loop iteration
    age              \* history: the loop iterations completed since the latest
                     \*   Fx15, counted up to MaxTicks

\* The state of the loop of start(), and what is recorded about it.
loop_vars == << tps, phase, steps_done, tally, age >>

vars == << i, pc, sp, v, memory, stack, timer, sound, buffer, keys, polling,
           last_pressed, loaded, result, hist, calls, event, written, ticks,
           tps, phase, steps_done, tally, age >>

\* The machine and its peripherals as one value, as step() sees them.
Cur ==
    [ i |-> i, pc |-> pc, sp |-> sp, v |-> v, memory |-> memory, stack |-> stack,
      timer |-> timer, sound |-> sound, buffer |-> buffer, keys |-> keys,
      polling |-> polling, last_pressed |-> last_pressed, result |-> result ]

\* A panic ends the process where it is raised.
Panic(s) == [s EXCEPT !.result = PANIC]

\* memory[addr], for addr < MEMORY_SIZE
mem_read(mem, addr) == IF addr \in DOMAIN mem THEN mem[addr] ELSE 0

\* The memory that holds val[addr] at the addresses of val and is mem elsewhere.
mem_write(mem, val) ==
    LET at(addr) == IF addr \in DOMAIN val THEN val[addr] ELSE mem[addr]
    IN  [addr \in {a \in DOMAIN mem \cup DOMAIN val : at(a) # 0} |-> at(addr)]

\* ------------------------------------------------------------------------
\* Display (display.rs)
\* ------------------------------------------------------------------------

\* display.rs:26-28
display_clear == {}

\* display.rs:31  the index of pixel (x, y)
\* Mutant of display_idx: the coordinates are used as they come, unwrapped.
display_idx_no_wrap(x, y) == (y * DISPLAY_WIDTH) + x

display_idx(x, y) == ((y % DISPLAY_HEIGHT) * DISPLAY_WIDTH) + (x % DISPLAY_WIDTH)

\* Mutant of display_set: the pixel is OR-ed with the value, not XOR-ed.
display_set_or(buf, x, y, value) ==
    LET idx == display_idx(x, y)
    IN  [ buffer |-> IF value THEN buf \cup {idx} ELSE buf,
          flag   |-> (idx \in buf) /\ value ]

\* display.rs:30-35  the buffer after set(x, y, value) and the flag it returns
display_set(buf, x, y, value) ==
    LET idx == display_idx(x, y)
    IN  [ buffer |-> IF value
                     THEN IF idx \in buf THEN buf \ {idx} ELSE buf \cup {idx}
                     ELSE buf,
          flag   |-> (idx \in buf) /\ value ]

\* ------------------------------------------------------------------------
\* Keyboard (keyboard.rs)
\* ------------------------------------------------------------------------

\* Mutant of keyboard_set: every press replaces the latched key.
keyboard_set_last_wins(s, key, value) ==
    [s EXCEPT !.last_pressed = IF value THEN key ELSE @,
              !.keys[key] = value]

\* keyboard.rs:16-21  the fields after set(key, value)
keyboard_set(s, key, value) ==
    [s EXCEPT !.last_pressed = IF value /\ s.last_pressed < 0 THEN key ELSE @,
              !.keys[key] = value]

\* Mutant of keyboard_poll: a latched key is handed out without a pending
\* request.
keyboard_poll_no_pending(s) ==
    IF s.last_pressed >= 0
    THEN [ key |-> s.last_pressed, polled |-> TRUE,
           polling |-> FALSE, last_pressed |-> -1 ]
    ELSE [ key |-> 0, polled |-> FALSE,
           polling |-> TRUE, last_pressed |-> s.last_pressed ]

\* keyboard.rs:27-37  what poll() returns and the fields it leaves
keyboard_poll(s) ==
    IF s.polling /\ s.last_pressed >= 0
    THEN [ key |-> s.last_pressed, polled |-> TRUE,
           polling |-> FALSE, last_pressed |-> -1 ]
    ELSE [ key |-> 0, polled |-> FALSE,
           polling |-> TRUE, last_pressed |-> s.last_pressed ]

\* ------------------------------------------------------------------------
\* Timer and Sound (timer.rs, sound.rs)
\* ------------------------------------------------------------------------

\* Mutant of timer_step: the decrement is not guarded and wraps at zero.
timer_step_wraps(value) == (value + U8 - 1) % U8

\* timer.rs:10-14
timer_step(value) == IF value > 0 THEN value - 1 ELSE value

\* sound.rs:14-18
sound_step(value) == IF value > 0 THEN value - 1 ELSE value

\* ------------------------------------------------------------------------
\* VirtualMachine: the opcode handlers (vm.rs:130-398).  Each takes the state
\* after fetch_opcode (pc already advanced, result Ok) and returns the state
\* the handler leaves, with result set to what it returns.
\* ------------------------------------------------------------------------

\* Mutant of exec_opcode_0x0: a RET on an empty stack rewinds the program
\* counter to the RET before it returns the error.
exec_opcode_0x0_retry_on_empty(s, opcode) ==
    IF opcode = 224
    THEN [s EXCEPT !.buffer = display_clear]
    ELSE IF opcode = 238
    THEN IF s.sp = 0
         THEN [s EXCEPT !.result = ERR_EMPTY_CALL_STACK, !.pc = s.pc - 2]
         ELSE [s EXCEPT !.sp = s.sp - 1, !.pc = s.stack[s.sp - 1]]
    ELSE s

\* vm.rs:130-148
exec_opcode_0x0(s, opcode) ==
    IF opcode = 224                                        \* 00E0 - CLS
    THEN [s EXCEPT !.buffer = display_clear]
    ELSE IF opcode = 238                                   \* 00EE - RET
    THEN IF s.sp = 0
         THEN [s EXCEPT !.result = ERR_EMPTY_CALL_STACK]
         ELSE IF s.sp - 1 >= STACK_SIZE
         THEN Panic([s EXCEPT !.sp = s.sp - 1])
         ELSE [s EXCEPT !.sp = s.sp - 1, !.pc = s.stack[s.sp - 1]]
    ELSE s

\* vm.rs:150-154
exec_opcode_0x1(s, opcode) == [s EXCEPT !.pc = decode_addr(opcode)]

\* Mutant of exec_opcode_0x2: the bound is off by one (sp > 0x10), so the
\* seventeenth CALL indexes the stack at 16.
exec_opcode_0x2_off_by_one(s, opcode) ==
    IF s.sp > 16
    THEN [s EXCEPT !.result = ERR_CALL_STACK_OVERFLOW]
    ELSE IF s.sp >= STACK_SIZE
    THEN Panic(s)
    ELSE [s EXCEPT !.stack[s.sp] = s.pc,
                   !.sp = s.sp + 1,
                   !.pc = decode_addr(opcode)]

\* Mutant of exec_opcode_0x2: the CALL pushes its own address, not the
\* address after it.
exec_opcode_0x2_push_own_address(s, opcode) ==
    IF s.sp > 15
    THEN [s EXCEPT !.result = ERR_CALL_STACK_OVERFLOW]
    ELSE [s EXCEPT !.stack[s.sp] = s.pc - 2,
                   !.sp = s.sp + 1,
                   !.pc = decode_addr(opcode)]

\* vm.rs:156-166
exec_opcode_0x2(s, opcode) ==
    IF s.sp > 15
    THEN [s EXCEPT !.result = ERR_CALL_STACK_OVERFLOW]
    ELSE [s EXCEPT !.stack[s.sp] = s.pc,
                   !.sp = s.sp + 1,
                   !.pc = decode_addr(opcode)]

\* vm.rs:168-174
exec_opcode_0x3(s, opcode) ==
    IF s.v[decode_x(opcode)] = decode_byte(opcode)
    THEN [s EXCEPT !.pc = s.pc + 2]
    ELSE s

\* vm.rs:176-182
exec_opcode_0x4(s, opcode) ==
    IF s.v[decode_x(opcode)] # decode_byte(opcode)
    THEN [s EXCEPT !.pc = s.pc + 2]
    ELSE s

\* Mutant of exec_opcode_0x5: the trailing nibble is not looked at.
exec_opcode_0x5_any_nibble(s, opcode) ==
    IF s.v[decode_x(opcode)] = s.v[decode_y(opcode)]
    THEN [s EXCEPT !.pc = s.pc + 2]
    ELSE s

\* vm.rs:184-190
exec_opcode_0x5(s, opcode) ==
    IF decode_nibb(opcode) = 0 /\ s.v[decode_x(opcode)] = s.v[decode_y(opcode)]
    THEN [s EXCEPT !.pc = s.pc + 2]
    ELSE s

\* vm.rs:192-196
exec_opcode_0x6(s, opcode) == [s EXCEPT !.v[decode_x(opcode)] = decode_byte(opcode)]

\* vm.rs:198-202  wrapping_add
exec_opcode_0x7(s, opcode) ==
    [s EXCEPT !.v[decode_x(opcode)] = (@ + decode_byte(opcode)) % U8]

\* vm.rs:204-258.  The flag is written to v[0xF] first and the result to v[x]
\* second, as in the source: with x = 0xF the second write is the one that stays.
exec_opcode_0x8(s, opcode) ==
    LET x  == decode_x(opcode)
        y  == decode_y(opcode)
        vx == s.v[x]
        vy == s.v[y]
        nb == decode_nibb(opcode)
    IN  CASE nb = 0 -> [s EXCEPT !.v[x] = vy]
          [] nb = 1 -> [s EXCEPT !.v[x] = BitOr(vx, vy)]
          [] nb = 2 -> [s EXCEPT !.v[x] = BitAnd(vx, vy)]
          [] nb = 3 -> [s EXCEPT !.v[x] = BitXor(vx, vy)]
          [] nb = 4 ->                                      \* overflowing_add
               [s EXCEPT !.v[15] = IF vx + vy >= U8 THEN 1 ELSE 0,
                         !.v[x]  = (vx + vy) % U8]
          [] nb = 5 ->                                      \* overflowing_sub
               [s EXCEPT !.v[15] = IF vx < vy THEN 0 ELSE 1,
                         !.v[x]  = (vx - vy) % U8]
          [] nb = 6 ->
               LET t == [s EXCEPT !.v[15] = vx % 2]
               IN  [t EXCEPT !.v[x] = t.v[x] \div 2]
          [] nb = 7 ->
               [s EXCEPT !.v[15] = IF vy < vx THEN 0 ELSE 1,
                         !.v[x]  = (vy - vx) % U8]
          [] nb = 14 ->
               LET t == [s EXCEPT !.v[15] = vx \div 128]
               IN  [t EXCEPT !.v[x] = (t.v[x] * 2) % U8]
          [] OTHER -> s

\* vm.rs:260-266
exec_opcode_0x9(s, opcode) ==
    IF decode_nibb(opcode) = 0 /\ s.v[decode_x(opcode)] # s.v[decode_y(opcode)]
    THEN [s EXCEPT !.pc = s.pc + 2]
    ELSE s

\* vm.rs:269-273
exec_opcode_0xA(s, opcode) == [s EXCEPT !.i = decode_addr(opcode)]

\* vm.rs:276-280  wrapping_add on u16
exec_opcode_0xB(s, opcode) == [s EXCEPT !.pc = (decode_addr(opcode) + s.v[0]) % U16]

\* vm.rs:283-287  r is the byte the generator returns
exec_opcode_0xC(s, opcode, r) ==
    [s EXCEPT !.v[decode_x(opcode)] = BitAnd(r, decode_byte(opcode))]

\* vm.rs:299-304  one sprite row: display.set(x + col, y, byte & 1) for col = 7
\* down to 0, the byte shifted right after each call.  after[k] is the buffer
\* and the flag after the first k calls.
\* Mutant of draw_bits: the low bit of the byte goes to the leftmost column.
draw_bits_lsb_first(st, x, y, byte) ==
    LET after[k \in 0..8] ==
            IF k = 0
            THEN st
            ELSE LET before == after[k - 1]
                     r == display_set(before.buffer, x + (k - 1), y,
                                      Bit(byte, k - 1) = 1)
                 IN  [ buffer |-> r.buffer, flag |-> IF r.flag THEN TRUE ELSE before.flag ]
    IN  after[8]

draw_bits(st, x, y, byte) ==
    LET after[k \in 0..8] ==
            IF k = 0
            THEN st
            ELSE LET before == after[k - 1]
                     r == display_set(before.buffer, x + (8 - k), y,
                                      Bit(byte, k - 1) = 1)
                 IN  [ buffer |-> r.buffer, flag |-> IF r.flag THEN TRUE ELSE before.flag ]
    IN  after[8]

\* vm.rs:296-305  rows n .. count-1; memory[i + n] out of range panics
RECURSIVE draw_rows(_, _, _, _, _, _)
draw_rows(s, st, x, y, n, count) ==
    IF n >= count
    THEN [s EXCEPT !.buffer = st.buffer, !.v[15] = IF st.flag THEN 1 ELSE 0]
    ELSE IF s.i + n >= MEMORY_SIZE
    THEN Panic([s EXCEPT !.buffer = st.buffer])
    ELSE LET row == draw_bits(st, x, y + n, mem_read(s.memory, s.i + n))
         IN  IF row.flag
             THEN draw_rows(s, [row EXCEPT !.flag = TRUE], x, y, n + 1, count)
             ELSE draw_rows(s, row, x, y, n + 1, count)

\* vm.rs:290-310
exec_opcode_0xD(s, opcode) ==
    draw_rows(s, [buffer |-> s.buffer, flag |-> FALSE],
              s.v[decode_x(opcode)], s.v[decode_y(opcode)], 0, decode_nibb(opcode))

\* keyboard.rs:23-25  keys[key as usize]: whether the index is in the array
is_pressed_in_range(key) == key < NUM_KEYS

\* vm.rs:313-335
exec_opcode_0xE(s, opcode) ==
    LET x  == decode_x(opcode)
        kk == decode_byte(opcode)
    IN  IF kk = 158                                         \* Ex9E - SKP Vx
        THEN IF ~is_pressed_in_range(s.v[x]) THEN Panic(s)
             ELSE IF s.keys[s.v[x]] THEN [s EXCEPT !.pc = s.pc + 2] ELSE s
        ELSE IF kk = 161                                    \* ExA1 - SKNP Vx
        THEN IF ~is_pressed_in_range(s.v[x]) THEN Panic(s)
             ELSE IF ~s.keys[s.v[x]] THEN [s EXCEPT !.pc = s.pc + 2] ELSE s
        ELSE s

\* Mutant of exec_block_for_key: a not-ready poll does not rewind pc.
exec_block_for_key_no_rewind(s, x) ==
    LET p == keyboard_poll(s)
        t == [s EXCEPT !.polling = p.polling, !.last_pressed = p.last_pressed]
    IN  IF p.polled
        THEN [t EXCEPT !.v[x] = p.key]
        ELSE t

\* vm.rs:352-359  Fx0A - LD Vx, K
exec_block_for_key(s, x) ==
    LET p == keyboard_poll(s)
        t == [s EXCEPT !.polling = p.polling, !.last_pressed = p.last_pressed]
    IN  IF p.polled
        THEN [t EXCEPT !.v[x] = p.key]
        ELSE [t EXCEPT !.pc = s.pc - 2]

\* vm.rs:368  Fx1E - ADD I, Vx: a u16 += that overflows panics in a build with
\* overflow checks and wraps in one without
exec_add_index(s, x, checks) ==
    IF s.i + s.v[x] >= U16
    THEN IF checks THEN Panic(s) ELSE [s EXCEPT !.i = (s.i + s.v[x]) % U16]
    ELSE [s EXCEPT !.i = s.i + s.v[x]]

\* vm.rs:374-378  Fx33 - LD B, Vx: three writes, each index checked in turn
exec_bcd(s, x) ==
    IF s.i >= MEMORY_SIZE THEN Panic(s)
    ELSE LET hundreds == s.v[x] \div 100
             tens     == (s.v[x] % 100) \div 100
             ones     == s.v[x] % 10
             t1 == [s EXCEPT !.memory = mem_write(@, (s.i :> hundreds))]
         IN  IF s.i + 1 >= MEMORY_SIZE THEN Panic(t1)
             ELSE LET t2 == [t1 EXCEPT !.memory = mem_write(@, (s.i + 1 :> tens))]
                  IN  IF s.i + 2 >= MEMORY_SIZE THEN Panic(t2)
                      ELSE [t2 EXCEPT !.memory = mem_write(@, (s.i + 2 :> ones))]

\* vm.rs:381-385  Fx55 - LD [I], Vx: registers 0..=x to memory[i ..], stopping
\* with a panic at the first index out of range
exec_store_regs(s, x) ==
    LET reg(a) == s.v[a - s.i]
        t == [s EXCEPT !.memory =
                  mem_write(@, [a \in {k \in s.i..(s.i + x) : k < MEMORY_SIZE} |-> reg(a)])]
    IN  IF s.i + x >= MEMORY_SIZE THEN Panic(t) ELSE t

\* vm.rs:388-392  Fx65 - LD Vx, [I]
exec_load_regs(s, x) ==
    LET t == [s EXCEPT !.v =
                  [k \in 0..(NUM_REGISTERS - 1) |->
                      IF k <= x /\ s.i + k < MEMORY_SIZE
                      THEN mem_read(s.memory, s.i + k) ELSE s.v[k]]]
    IN  IF s.i + x >= MEMORY_SIZE THEN Panic(t) ELSE t

\* vm.rs:338-398
exec_opcode_0xF(s, opcode, checks) ==
    LET x  == decode_x(opcode)
        kk == decode_byte(opcode)
    IN  CASE kk = 7   -> [s EXCEPT !.v[x] = s.timer]       \* Fx07 - LD Vx, DT
          [] kk = 10  -> exec_block_for_key(s, x)
          [] kk = 21  -> [s EXCEPT !.timer = s.v[x]]       \* Fx15 - LD DT, Vx
          [] kk = 24  -> [s EXCEPT !.sound = s.v[x]]       \* Fx18 - LD ST, Vx
          [] kk = 30  -> exec_add_index(s, x, checks)
          [] kk = 41  -> [s EXCEPT !.i = s.v[x] * FONT_SIZE] \* Fx29 - LD F, Vx
          [] kk = 51  -> exec_bcd(s, x)
          [] kk = 85  -> exec_store_regs(s, x)
          [] kk = 101 -> exec_load_regs(s, x)
          [] OTHER    -> s

\* vm.rs:123-128  whether both reads of fetch_opcode index inside memory
fetch_in_range(s) == s.pc < MEMORY_SIZE /\ s.pc + 1 < MEMORY_SIZE

\* vm.rs:124-127  the opcode at pc, big-endian
fetch_opcode(s) == mem_read(s.memory, s.pc) * 256 + mem_read(s.memory, s.pc + 1)

\* vm.rs:93-121  step(): r is the byte the random generator would return,
\* checks the build's overflow-checks setting
step(s, r, checks) ==
    IF ~fetch_in_range(s)
    THEN Panic(s)
    ELSE LET opcode == fetch_opcode(s)
             t      == [s EXCEPT !.pc = s.pc + 2, !.result = OK]
             class  == opcode \div 4096
         IN  CASE class = 0  -> exec_opcode_0x0(t, opcode)
               [] class = 1  -> exec_opcode_0x1(t, opcode)
               [] class = 2  -> exec_opcode_0x2(t, opcode)
               [] class = 3  -> exec_opcode_0x3(t, opcode)
               [] class = 4  -> exec_opcode_0x4(t, opcode)
               [] class = 5  -> exec_opcode_0x5(t, opcode)
               [] class = 6  -> exec_opcode_0x6(t, opcode)
               [] class = 7  -> exec_opcode_0x7(t, opcode)
               [] class = 8  -> exec_opcode_0x8(t, opcode)
               [] class = 9  -> exec_opcode_0x9(t, opcode)
               [] class = 10 -> exec_opcode_0xA(t, opcode)
               [] class = 11 -> exec_opcode_0xB(t, opcode)
               [] class = 12 -> exec_opcode_0xC(t, opcode, r)
               [] class = 13 -> exec_opcode_0xD(t, opcode)
               [] class = 14 -> exec_opcode_0xE(t, opcode)
               [] class = 15 -> exec_opcode_0xF(t, opcode, checks)

\* vm.rs:80-91  load_bytes: the length check is against the whole memory, the
\* writes start at 0x200 and an index past the end of memory panics
load_bytes(s, bytes) ==
    IF MEMORY_SIZE < Len(bytes)
    THEN [s EXCEPT !.result = ERR_TOO_MANY_BYTES]
    ELSE LET byte(a) == bytes[a - PROGRAM_START_ADDRESS + 1]
             t == [s EXCEPT !.memory =
                      mem_write(@, [a \in {k \in PROGRAM_START_ADDRESS
                                               ..(PROGRAM_START_ADDRESS + Len(bytes) - 1) :
                                            k < MEMORY_SIZE} |-> byte(a)])]
         IN  IF PROGRAM_START_ADDRESS + Len(bytes) > MEMORY_SIZE
             THEN Panic(t)
             ELSE [t EXCEPT !.result = OK]

\* ------------------------------------------------------------------------
\* Inputs: ROM images, key events, random bytes
\* ------------------------------------------------------------------------

CLS == 224

RET == 238

JP(addr) == 4096 + addr

CALL(addr) == 8192 + addr

SE(x, kk) == 12288 + x * 256 + kk

SNE(x, kk) == 16384 + x * 256 + kk

SER(x, y) == 20480 + x * 256 + y * 16

LD(x, kk) == 24576 + x * 256 + kk

ADDB(x, kk) == 28672 + x * 256 + kk

ALU(x, y, nb) == 32768 + x * 256 + y * 16 + nb

SNER(x, y) == 36864 + x * 256 + y * 16

LDI(addr) == 40960 + addr

JPV0(addr) == 45056 + addr

RND(x, kk) == 49152 + x * 256 + kk

DRW(x, y, nb) == 53248 + x * 256 + y * 16 + nb

SKP(x) == 57344 + x * 256 + 158

SKNP(x) == 57344 + x * 256 + 161

FX(x, kk) == 61440 + x * 256 + kk

\* The bytes of a sequence of opcodes, big-endian.
Asm(ops) ==
    [k \in 1..(2 * Len(ops)) |->
        IF k % 2 = 1 THEN ops[(k + 1) \div 2] \div 256 ELSE ops[k \div 2] % 256]

\* A ROM of len bytes holding the opcodes of prog (address |-> opcode), zero elsewhere.
Image(len, prog) ==
    [k \in 1..len |->
        LET addr == PROGRAM_START_ADDRESS + k - 1
        IN  IF addr \in DOMAIN prog THEN prog[addr] \div 256
            ELSE IF (addr - 1) \in DOMAIN prog THEN prog[addr - 1] % 256
            ELSE 0]

\* One more nested CALL than the stack holds, each followed by a RET:
\* 0x200 + 16k: CALL 0x200 + 16(k+1); RET   for k = 0..16, and 0x204: JP 0x204.
CallChainRom ==
    Image(17 * 16,
          [addr \in {PROGRAM_START_ADDRESS + 16 * k : k \in 0..STACK_SIZE}
                    \cup {PROGRAM_START_ADDRESS + 16 * k + 2 : k \in 0..STACK_SIZE}
                    \cup {PROGRAM_START_ADDRESS + 4} |->
              IF addr = PROGRAM_START_ADDRESS + 4 THEN JP(addr)
              ELSE IF addr % 16 = 0 THEN CALL(addr + 16)
              ELSE RET])

\* CALL target; (back here) JP self; ...; target: RET
CallRetRom(target) ==
    Image(target - PROGRAM_START_ADDRESS + 2,
          (PROGRAM_START_ADDRESS :> CALL(target))
          @@ ((PROGRAM_START_ADDRESS + 2) :> JP(PROGRAM_START_ADDRESS + 2))
          @@ (target :> RET))

CallRoms ==
    {CallChainRom, Asm(<< RET, LD(10, 2), ADDB(10, 5), JP(518) >>)}
    \cup {CallRetRom(target) : target \in {516, 518, 767}}

\* Block for a key into Vx, test the key in Vx both ways, and again.
KeyRoms ==
    {Asm(<< FX(x, 10), SKP(x), SKNP(x), JP(512), JP(512) >>) : x \in {0, 15}}
    \cup {Asm(<< LD(x, kk), SKP(x), JP(516), JP(518) >>) : x \in {1}, kk \in {15, 16, 255}}

JumpRoms ==
    {Asm(<< JP(addr) >>) : addr \in {4094, 4095}}
    \cup {Asm(<< LD(0, ka[1]), JPV0(ka[2]), JP(516) >>) :
              ka \in {<< 0, 516 >>, << 0, 4095 >>, << 255, 3839 >>, << 255, 4095 >>}}

\* I = 0xFFF, then 241 times I += 255: the last add passes 65535.
IndexOverflowRom ==
    Asm(<< LD(1, 255), LDI(4095) >> \o [k \in 1..241 |-> FX(1, 30)] \o << JP(998) >>)

TimerRoms ==
    {Asm(<< LD(3, kk), FX(3, 21), FX(3, 24), FX(4, 7), JP(518) >>) : kk \in {0, 2}}

\* Every handler at least once.
MiscRom ==
    Asm(<< LD(0, 3), SE(0, 3), CLS, SNE(0, 3), LD(1, 3), SER(0, 1), CLS, SNER(0, 1),
           ADDB(1, 254), ALU(2, 1, 0), ALU(2, 0, 1), ALU(2, 1, 2), ALU(2, 0, 3),
           ALU(2, 1, 4), ALU(2, 0, 5), ALU(2, 0, 6), ALU(2, 0, 7), ALU(2, 0, 14),
           ALU(2, 0, 9), RND(3, 15), LD(4, 10), FX(4, 41), DRW(0, 1, 5), DRW(0, 1, 5),
           345, SER(0, 1) + 1, SNER(0, 1) + 1, SKP(0) + 1, FX(0, 255),
           LDI(768), FX(2, 51), FX(2, 85), FX(3, 101), FX(2, 30), CLS, JP(582) >>)

\* n bytes: JP 0x200 and then data.
BigRom(len) ==
    [k \in 1..len |-> IF k = 1 THEN 18 ELSE IF k = 2 THEN 0 ELSE (7 * k) % 256]

\* Lengths around the two limits: 4096 - 512 (the room after 0x200) and 4096.
LoadRoms ==
    {BigRom(len) : len \in {MEMORY_SIZE - PROGRAM_START_ADDRESS,
                            MEMORY_SIZE - PROGRAM_START_ADDRESS + 1,
                            MEMORY_SIZE, MEMORY_SIZE + 1}}

ROMS ==
    CallRoms \cup KeyRoms \cup JumpRoms \cup TimerRoms \cup LoadRoms
    \cup {IndexOverflowRom, MiscRom}

\* The keys whose events are delivered: 0 .. MaxKeys - 2 and 15.
MaxKeys == 2

KeyInputs == {key \in 0..(NUM_KEYS - 1) : key < MaxKeys - 1} \cup {NUM_KEYS - 1}

\* The bytes the random generator may return.
RandomBytes == {0, 165, 255}

\* ------------------------------------------------------------------------
\* Init and the actions
\* ------------------------------------------------------------------------

\* vm.rs:58-78, timer.rs:6-8, sound.rs:6-8, display.rs:17-24, keyboard.rs:8-14
\* The countdown step() calls counted since a write, and the loop iterations
\* counted since one.
MaxTicks == 4

\* The state after the constructors, for an Options.tps of n.
Start(n) ==
    /\ i = 0
    /\ pc = PROGRAM_START_ADDRESS
    /\ sp = 0
    /\ v = [k \in 0..(NUM_REGISTERS - 1) |-> 0]
    /\ memory = [a \in {k \in 0..(Len(FONTS) - 1) : FONTS[k + 1] # 0} |-> FONTS[a + 1]]
    /\ stack = [k \in 0..(STACK_SIZE - 1) |-> 0]
    /\ timer = 0
    /\ sound = 0
    /\ buffer = display_clear
    /\ keys = [k \in 0..(NUM_KEYS - 1) |-> FALSE]
    /\ polling = FALSE
    /\ last_pressed = -1
    /\ loaded = FALSE
    /\ result = NONE
    /\ hist = << >>
    /\ calls = << >>
    /\ event = NO_EVENT
    /\ written = [delay |-> NOT_WRITTEN, sound |-> NOT_WRITTEN]
    /\ ticks = [delay |-> 0, sound |-> 0]
    /\ tps = n
    /\ phase = AT_EVENTS
    /\ steps_done = 0
    /\ tally = [timer |-> 0, sound |-> 0, steps |-> 0]
    /\ age = 0

\* main.rs:8  start(path, &Options::defaults())
Init == Start(DEFAULT_TPS)

\* The process runs: not ended by an Err from load_bytes or by a panic.
Running == loaded /\ result # PANIC

\* mod.rs:80-89  start() loads the ROM once, before the loop
LoadBytes(bytes) ==
    /\ ~loaded
    /\ result = NONE
    /\ LET n == load_bytes(Cur, bytes)
       IN  /\ memory' = n.memory
           /\ result' = n.result
           /\ loaded' = (n.result = OK)
    /\ UNCHANGED << i, pc, sp, v, stack, timer, sound, buffer, keys, polling,
                    last_pressed, hist, calls, event, written, ticks >>
    /\ UNCHANGED loop_vars

Load(roms) == \E bytes \in roms : LoadBytes(bytes)

\* What the history keeps of one step: the opcode fetched (-1: the fetch
\* panicked), the state it started from and what it returned.
hist_record(s, n) ==
    [ opcode |-> IF fetch_in_range(s) THEN fetch_opcode(s) ELSE -1,
      pc |-> s.pc, sp |-> s.sp, i |-> s.i, v |-> s.v, buffer |-> s.buffer,
      result |-> n.result ]

\* The return addresses outstanding after a step: a CALL that returned Ok adds
\* the address after it, a RET that returned Ok takes the latest away.
calls_after(cs, rec) ==
    IF rec.result # OK \/ rec.opcode < 0 THEN cs
    ELSE IF rec.opcode \div 4096 = 2 THEN Append(cs, rec.pc + 2)
    ELSE IF rec.opcode = RET /\ Len(cs) > 0 THEN SubSeq(cs, 1, Len(cs) - 1)
    ELSE cs

\* vm.rs:285  the generator is called by Cxkk alone
random_choices(s) ==
    IF fetch_in_range(s) /\ fetch_opcode(s) \div 4096 = 12 THEN RandomBytes ELSE {0}

\* vm.rs:368  the build's overflow-checks setting is observed by Fx1E alone: on
\* (a dev build) or off (a release build)
overflow_choices(s) ==
    IF fetch_in_range(s) /\ fetch_opcode(s) \div 4096 = 15
       /\ decode_byte(fetch_opcode(s)) = 30
    THEN BOOLEAN ELSE {FALSE}

\* The countdown values written by a step: Fx15 writes the delay timer, Fx18
\* the sound timer.
written_after(w, rec) ==
    IF rec.opcode < 0 \/ rec.opcode \div 4096 # 15 THEN w
    ELSE IF decode_byte(rec.opcode) = 21
    THEN [w EXCEPT !.delay = rec.v[decode_x(rec.opcode)]]
    ELSE IF decode_byte(rec.opcode) = 24
    THEN [w EXCEPT !.sound = rec.v[decode_x(rec.opcode)]]
    ELSE w

ticks_after(t, rec) ==
    IF rec.opcode < 0 \/ rec.opcode \div 4096 # 15 THEN t
    ELSE IF decode_byte(rec.opcode) = 21 THEN [t EXCEPT !.delay = 0]
    ELSE IF decode_byte(rec.opcode) = 24 THEN [t EXCEPT !.sound = 0]
    ELSE t

\* One more step() call of a countdown that has been written.
ticked(count, value) ==
    IF value = NOT_WRITTEN \/ count >= MaxTicks THEN count ELSE count + 1

\* vm.rs:93-121  one vm.step(...) call
VmStep ==
    /\ Running
    /\ \E r \in random_choices(Cur), checks \in overflow_choices(Cur) :
          LET n   == step(Cur, r, checks)
              rec == hist_record(Cur, n)
          IN  /\ i' = n.i
              /\ pc' = n.pc
              /\ sp' = n.sp
              /\ v' = n.v
              /\ memory' = n.memory
              /\ stack' = n.stack
              /\ timer' = n.timer
              /\ sound' = n.sound
              /\ buffer' = n.buffer
              /\ keys' = n.keys
              /\ polling' = n.polling
              /\ last_pressed' = n.last_pressed
              /\ result' = n.result
              /\ hist' = << rec >> \o SubSeq(hist, 1, IF Len(hist) > 0 THEN 1 ELSE 0)
              /\ calls' = calls_after(calls, rec)
              /\ written' = written_after(written, rec)
              /\ ticks' = ticks_after(ticks, rec)
    /\ event' = NO_EVENT
    /\ UNCHANGED loaded

\* mod.rs:96-116  a KeyDown / KeyUp event of a mapped key
KeyEvent ==
    /\ Running
    /\ \E key \in KeyInputs, value \in BOOLEAN :
          LET n == keyboard_set(Cur, key, value)
          IN  /\ keys' = n.keys
              /\ last_pressed' = n.last_pressed
              /\ event' = IF value /\ ~keys[key]
                          THEN IF event = NO_EVENT THEN key ELSE MANY_EVENTS
                          ELSE event
    /\ UNCHANGED << i, pc, sp, v, memory, stack, timer, sound, buffer, polling,
                    loaded, result, hist, calls, written, ticks >>

\* timer.rs:10-14  one timer.step() call
TimerTick ==
    /\ Running
    /\ timer' = timer_step(timer)
    /\ ticks' = [ticks EXCEPT !.delay = ticked(@, written.delay)]
    /\ UNCHANGED << i, pc, sp, v, memory, stack, sound, buffer, keys, polling,
                    last_pressed, loaded, result, hist, calls, event, written >>

\* sound.rs:14-18  one sound.step() call
SoundTick ==
    /\ Running
    /\ sound' = sound_step(sound)
    /\ ticks' = [ticks EXCEPT !.sound = ticked(@, written.sound)]
    /\ UNCHANGED << i, pc, sp, v, memory, stack, timer, buffer, keys, polling,
                    last_pressed, loaded, result, hist, calls, event, written >>

\* The operations of the loop body taken in any order and any number of
\* times: the loop itself stays where it is.

\* mod.rs:125-132  one vm.step(...) call of the loop
Step == VmStep /\ UNCHANGED loop_vars

\* mod.rs:96-116
SetKey == KeyEvent /\ UNCHANGED loop_vars

\* mod.rs:122
TimerStep == TimerTick /\ UNCHANGED loop_vars

\* mod.rs:123
SoundStep == SoundTick /\ UNCHANGED loop_vars

LoadRom == Load(ROMS)

Next == LoadRom \/ Step \/ SetKey \/ TimerStep \/ SoundStep

Spec == Init /\ [][Next]_vars

\* ------------------------------------------------------------------------
\* The arithmetic opcodes on their own: Vx = a, Vy = b, one 8xyN, for the
\* registers 0, 1 and F as x and as y.
\* ------------------------------------------------------------------------

AluValues == {0, 1, 5, 10, 20, 128, 250, 255}

AluRegisters == {0, 1, 15}

AluRoms ==
    {Asm(<< LD(x, a), LD(y, b), ALU(x, y, nb), JP(518) >>) :
        x \in AluRegisters, y \in AluRegisters,
        a \in AluValues, b \in AluValues, nb \in {4, 5, 6, 7, 14}}

LoadAluRom == Load(AluRoms)

NextAlu == LoadAluRom \/ Step

SpecAlu == Init /\ [][NextAlu]_vars

\* ------------------------------------------------------------------------
\* Drawing on its own: I = a, Vx = cx, Vy = cy, the same Dxyn twice.  The
\* sprites are font glyphs (I = 0, 75), the ROM's own bytes (512), zeroed
\* memory (1024) and the last bytes of memory (4090); the second family draws
\* the glyph 0 at (0, 0) first, so that the pair starts from a lit buffer.
\* ------------------------------------------------------------------------

DrawAddresses == {0, 75, 512, 1024, 4090}

DrawColumns == {0, 60, 64, 255}

DrawLines == {0, 30, 32, 255}

DrawHeights == {0, 1, 5, 15}

DrawRegisters == {<< 0, 1 >>, << 15, 1 >>, << 0, 15 >>, << 2, 2 >>}

DrawPair(a, xy, cx, cy, nb) ==
    << LDI(a), LD(xy[1], cx), LD(xy[2], cy), DRW(xy[1], xy[2], nb), DRW(xy[1], xy[2], nb) >>

DrawRoms ==
    {Asm(DrawPair(a, xy, cx, cy, nb) \o << JP(522) >>) :
        a \in DrawAddresses, xy \in DrawRegisters,
        cx \in DrawColumns, cy \in DrawLines, nb \in DrawHeights}
    \cup
    {Asm(<< LDI(0), DRW(3, 3, 5) >> \o DrawPair(a, xy, cx, cy, nb) \o << JP(526) >>) :
        a \in DrawAddresses, xy \in DrawRegisters,
        cx \in DrawColumns, cy \in DrawLines, nb \in DrawHeights}

LoadDrawRom == Load(DrawRoms)

NextDraw == LoadDrawRom \/ Step

SpecDraw == Init /\ [][NextDraw]_vars

\* ------------------------------------------------------------------------
\* The index opcodes on their own: Vx = value, I = a, then Fx29 or Fx33.
\* ------------------------------------------------------------------------

FxValues == {0, 1, 9, 10, 15, 16, 42, 99, 100, 123, 199, 200, 255}

FxAddresses == {768, 4093, 4094, 4095}

FxRoms ==
    {Asm(<< LD(x, value), LDI(a), FX(x, kk), JP(518) >>) :
        x \in {0, 15}, value \in FxValues, a \in FxAddresses, kk \in {41, 51}}

LoadFxRom == Load(FxRoms)

NextFx == LoadFxRom \/ Step

SpecFx == Init /\ [][NextFx]_vars

\* ------------------------------------------------------------------------
\* Opcodes that are no defined instruction, each stepped from a state in which
\* every part of the machine holds something: sp = 1, V0 = V1 = 200, V2 = 2,
\* both timers 2, I = 0, a glyph on the display, keys going down and up.
\* ------------------------------------------------------------------------

UndefinedOpcodes ==
    {0, 225, 239, 291, 4095}                                \* 0nnn
    \cup {SER(0, 1) + 1, SER(0, 1) + 15}                     \* 5xyN
    \cup {ALU(0, 1, nb) : nb \in {8, 9, 10, 11, 12, 13, 15}} \* 8xyN
    \cup {SNER(0, 2) + 1, SNER(0, 2) + 15}                   \* 9xyN
    \cup {FX(0, 0) - 4096, SKP(0) + 1, SKNP(0) - 1, FX(0, 255) - 4096}    \* Exkk
    \cup {FX(x, kk) : x \in {0, 15}, kk \in {0, 8, 11, 22, 52, 86, 102, 255}}

NoopRoms ==
    {Asm(<< CALL(516), 0, LD(0, 200), LD(1, 200), LD(2, 2), FX(2, 21), FX(2, 24),
            LDI(0), DRW(0, 1, 5), op, JP(532) >>) : op \in UndefinedOpcodes}

LoadNoopRom == Load(NoopRoms)

NextNoop == LoadNoopRom \/ Step \/ SetKey

SpecNoop == Init /\ [][NextNoop]_vars

\* The opcode the next step() fetches (-1: the fetch panics).
Fetched == IF fetch_in_range(Cur) THEN fetch_opcode(Cur) ELSE -1

IsCall(opcode) == opcode >= 0 /\ opcode \div 4096 = 2

IsBlockForKey(opcode) == opcode >= 0 /\ opcode \div 4096 = 15 /\ decode_byte(opcode) = 10

IsDraw(opcode) == opcode >= 0 /\ opcode \div 4096 = 13

IsFlagAlu(opcode) ==
    opcode >= 0 /\ opcode \div 4096 = 8 /\ decode_nibb(opcode) \in {4, 5, 6, 7, 14}

StepErrors == {ERR_EMPTY_CALL_STACK, ERR_CALL_STACK_OVERFLOW}

\* ------------------------------------------------------------------------
\* The loop of start() in the order of its statements (mod.rs:91-137): the
\* pending events, timer.step(), sound.step(), opts.tps times vm.step(), then
\* display.render().  The ROMs write the delay timer and read it back, once or
\* in every pass, with and without a failing RET among the steps.
\* ------------------------------------------------------------------------

\* Options.tps: 1 .. MaxTps and the default.
MaxTps == 2

TpsChoices == (1..MaxTps) \cup {DEFAULT_TPS}

InitLoop == \E n \in TpsChoices : Start(n)

LoopRoms ==
    {Asm(<< LD(3, kk), FX(3, 21), FX(4, 7), JP(516) >>) : kk \in {0, 1, 3}}
    \cup {Asm(<< LD(3, kk), FX(3, 21), FX(4, 7), RET, JP(516) >>) : kk \in {1, 3}}
    \cup {Asm(<< LD(3, kk), FX(3, 21), FX(4, 7), FX(4, 7), FX(4, 7), JP(514) >>) :
              kk \in {3}}

LoadLoopRom == Load(LoopRoms)

\* mod.rs:92-120  one event of event_pump.poll_iter()
LoopKeyEvent ==
    /\ phase = AT_EVENTS
    /\ KeyEvent
    /\ UNCHANGED loop_vars

\* mod.rs:122  the events are done: timer.step()
LoopTimerStep ==
    /\ phase = AT_EVENTS
    /\ TimerTick
    /\ phase' = AT_SOUND
    /\ tally' = [tally EXCEPT !.timer = @ + 1]
    /\ UNCHANGED << tps, steps_done, age >>

\* mod.rs:123  sound.step()
LoopSoundStep ==
    /\ phase = AT_SOUND
    /\ SoundTick
    /\ phase' = AT_STEPS
    /\ steps_done' = 0
    /\ tally' = [tally EXCEPT !.sound = @ + 1]
    /\ UNCHANGED << tps, age >>

\* Mutant of LoopStep: a step that returns Err ends the for loop.
LoopStep_error_breaks ==
    /\ phase = AT_STEPS
    /\ steps_done < tps
    /\ VmStep
    /\ steps_done' = IF result' \in StepErrors THEN tps ELSE steps_done + 1
    /\ tally' = [tally EXCEPT !.steps = @ + 1]
    /\ age' = IF Fetched >= 0 /\ Fetched \div 4096 = 15 /\ decode_byte(Fetched) = 21
              THEN 0 ELSE age
    /\ UNCHANGED << tps, phase >>

\* mod.rs:125-132  one pass of `for _ in 0..opts.tps`: an Err is printed and
\* the loop goes on
LoopStep ==
    /\ phase = AT_STEPS
    /\ steps_done < tps
    /\ VmStep
    /\ steps_done' = steps_done + 1
    /\ tally' = [tally EXCEPT !.steps = @ + 1]
    /\ age' = IF Fetched >= 0 /\ Fetched \div 4096 = 15 /\ decode_byte(Fetched) = 21
              THEN 0 ELSE age
    /\ UNCHANGED << tps, phase >>

\* mod.rs:134-136  the for loop is done: display.render(), which reads the
\* buffer, and the sleep; the next iteration begins
LoopRender ==
    /\ Running
    /\ phase = AT_STEPS
    /\ steps_done = tps
    /\ phase' = AT_EVENTS
    /\ tally' = [timer |-> 0, sound |-> 0, steps |-> 0]
    /\ age' = ticked(age, written.delay)
    /\ UNCHANGED << i, pc, sp, v, memory, stack, timer, sound, buffer, keys, polling,
                    last_pressed, loaded, result, hist, calls, event, written, ticks,
                    tps, steps_done >>

\* mod.rs:94, 100  Event::Quit or the Escape key: break 'running
LoopQuit ==
    /\ Running
    /\ phase = AT_EVENTS
    /\ phase' = AT_END
    /\ UNCHANGED << i, pc, sp, v, memory, stack, timer, sound, buffer, keys, polling,
                    last_pressed, loaded, result, hist, calls, event, written, ticks,
                    tps, steps_done, tally, age >>

NextLoop ==
    \/ LoadLoopRom
    \/ LoopKeyEvent
    \/ LoopQuit
    \/ LoopTimerStep
    \/ LoopSoundStep
    \/ LoopStep
    \/ LoopRender

SpecLoop == InitLoop /\ [][NextLoop]_vars

\* ------------------------------------------------------------------------
\* C1.  After a successful load, every step() call returns: Ok, or one of the
\* two Err values; no opcode makes it abort (panic) instead.
\* ------------------------------------------------------------------------
C1_StepNeverAborts ==
    loaded => result \in {OK, ERR_EMPTY_CALL_STACK, ERR_CALL_STACK_OVERFLOW}

\* ------------------------------------------------------------------------
\* C2.  After a successful load the program counter always references a byte
\* pair inside memory: 0 <= pc and pc + 1 <= 4095.
\* ------------------------------------------------------------------------
C2_PcInsideMemory == loaded => (0 <= pc /\ pc + 1 <= MEMORY_SIZE - 1)

\* ------------------------------------------------------------------------
\* C3.  The stack pointer stays in 0..16; a CALL succeeds (pushes the address
\* after it, increments sp, jumps) exactly when sp < 16 and fails with
\* CallStackOverflow, leaving sp at 16, exactly when sp = 16; a RET succeeds
\* (decrements sp) exactly when sp > 0 and fails with EmptyCallStack at sp = 0.
\* ------------------------------------------------------------------------
C3_CallStep ==
    (Step /\ IsCall(Fetched)) =>
        IF sp < STACK_SIZE
        THEN /\ result' = OK
             /\ sp' = sp + 1
             /\ stack' = [stack EXCEPT ![sp] = pc + 2]
             /\ pc' = decode_addr(Fetched)
        ELSE /\ sp = STACK_SIZE
             /\ result' = ERR_CALL_STACK_OVERFLOW
             /\ sp' = sp

C3_RetStep ==
    (Step /\ Fetched = RET) =>
        IF sp > 0
        THEN result' = OK /\ sp' = sp - 1
        ELSE result' = ERR_EMPTY_CALL_STACK /\ sp' = sp

C3_CallStackBounds ==
    /\ [](sp \in 0..STACK_SIZE)
    /\ [][C3_CallStep /\ C3_RetStep]_vars

\* Sixteen nested CALLs have succeeded and the seventeenth has failed.
C3_Witness ==
    /\ sp = STACK_SIZE
    /\ Len(calls) = STACK_SIZE
    /\ result = ERR_CALL_STACK_OVERFLOW
    /\ IsCall(hist[1].opcode)

\* ------------------------------------------------------------------------
\* C4.  A RET that succeeds returns to the address after the latest CALL not
\* yet returned from (last in, first out, for any nesting the stack holds) and
\* takes sp back by one; so a CALL immediately followed by a RET leaves pc at
\* the address after the CALL and sp at its value before the CALL.
\* ------------------------------------------------------------------------
C4_RetStep ==
    (Step /\ Fetched = RET /\ result' = OK) =>
        /\ Len(calls) = sp
        /\ sp > 0
        /\ pc' = calls[Len(calls)]
        /\ sp' = sp - 1
        /\ (Len(hist) > 0 /\ IsCall(hist[1].opcode) /\ hist[1].result = OK) =>
               (pc' = hist[1].pc + 2 /\ sp' = hist[1].sp)

C4_CallRetBalance == [][C4_RetStep]_vars

\* A CALL and then, as the first instruction at its target, a RET.
C4_Witness ==
    /\ Len(hist) = 2
    /\ IsCall(hist[2].opcode) /\ hist[2].result = OK
    /\ hist[1].opcode = RET /\ hist[1].result = OK
    /\ hist[1].pc = decode_addr(hist[2].opcode)
    /\ pc = hist[2].pc + 2
    /\ sp = hist[2].sp

\* ------------------------------------------------------------------------
\* C5.  A step() that fails (RET at sp = 0, CALL at sp = 16) changes nothing
\* but the program counter, which is the failing instruction's address + 2;
\* the step() after it fetches there and does not retry the failing one.
\* ------------------------------------------------------------------------
C5_FailingStep ==
    (Step /\ result' \in StepErrors) =>
        /\ (Fetched = RET /\ sp = 0) \/ (IsCall(Fetched) /\ sp = STACK_SIZE)
        /\ pc' = pc + 2
        /\ UNCHANGED << i, sp, v, memory, stack, timer, sound, buffer, keys,
                        polling, last_pressed >>

C5_StepAfterFailure ==
    (Step /\ result \in StepErrors) => (Len(hist) > 0 /\ pc = hist[1].pc + 2)

C5_StateUnchangedOnError == [][C5_FailingStep /\ C5_StepAfterFailure]_vars

\* A step has failed and the one after it has run the instruction that follows.
C5_Witness ==
    /\ Len(hist) = 2
    /\ hist[2].result \in StepErrors
    /\ hist[1].pc = hist[2].pc + 2
    /\ hist[1].result = OK
    /\ hist[1].opcode # hist[2].opcode

\* ------------------------------------------------------------------------
\* C6.  Program load: a buffer of more than 4096 - 512 = 3584 bytes fails with
\* the ProgramTooLarge error value and leaves memory unchanged; any shorter
\* buffer loads Ok, memory[0x200 + k] is byte k for every k below the length,
\* and every other byte of memory (the font table included) is unchanged.
\* ------------------------------------------------------------------------
C6_LoadStep(bytes) ==
    LoadBytes(bytes) =>
        IF Len(bytes) > MEMORY_SIZE - PROGRAM_START_ADDRESS
        THEN result' = ERR_TOO_MANY_BYTES /\ memory' = memory
        ELSE /\ result' = OK
             /\ \A a \in 0..(MEMORY_SIZE - 1) :
                    mem_read(memory', a) =
                        IF a >= PROGRAM_START_ADDRESS
                           /\ a < PROGRAM_START_ADDRESS + Len(bytes)
                        THEN bytes[a - PROGRAM_START_ADDRESS + 1]
                        ELSE mem_read(memory, a)

\* C6: every load of every ROM behaves as stated above.
C6_LoadWithinProgramArea == [][\A bytes \in ROMS : C6_LoadStep(bytes)]_vars

\* ------------------------------------------------------------------------
\* C7.  Blocking key read, waiting: a step of Fx0A taken while none of the 16
\* keys is pressed leaves pc at the instruction and leaves the registers, the
\* index register, the stack and memory unchanged, whatever keys were pressed
\* and released before.  The steps looked at are those before which no key
\* has gone down since the previous step.
\* ------------------------------------------------------------------------
NoKeyPressed == \A key \in 0..(NUM_KEYS - 1) : ~keys[key]

C7_WaitingStep ==
    (Step /\ IsBlockForKey(Fetched) /\ NoKeyPressed /\ event = NO_EVENT) =>
        /\ pc' = pc
        /\ v' = v
        /\ i' = i
        /\ sp' = sp
        /\ stack' = stack
        /\ memory' = memory

\* C7: Fx0A stepped with no key pressed keeps waiting.
C7_WaitsWhileNoKeyPressed == [][C7_WaitingStep]_vars

\* ------------------------------------------------------------------------
\* C8.  Blocking key read, completion: Fx0A is waiting (the previous step was
\* this instruction and reported not-ready) and then one key k goes from
\* released to pressed; the very next step stores exactly k in Vx and leaves pc
\* at the instruction's address + 2.
\* ------------------------------------------------------------------------
C8_Waiting ==
    /\ IsBlockForKey(Fetched)
    /\ polling
    /\ Len(hist) > 0
    /\ hist[1].pc = pc
    /\ hist[1].opcode = Fetched

C8_CompletingStep ==
    (Step /\ C8_Waiting /\ event \in 0..(NUM_KEYS - 1)) =>
        /\ v'[decode_x(Fetched)] = event
        /\ pc' = pc + 2

\* C8: the step after a key press during the wait stores that key.
C8_StoresThePressedKey == [][C8_CompletingStep]_vars

\* ------------------------------------------------------------------------
\* C9.  Flag-producing ALU opcodes: after 8xy4, 8xy5, 8xy6, 8xy7 or 8xyE, for
\* every x and y (F included), VF is the documented flag of the operands the
\* step started with (ADD: Vx + Vy > 255; SUB: Vx >= Vy; SUBN: Vy >= Vx; SHR:
\* low bit of Vx; SHL: high bit of Vx), and for x # F Vx is the result modulo
\* 256.
\* ------------------------------------------------------------------------
C9_Flag(nb, vx, vy) ==
    CASE nb = 4  -> IF vx + vy > 255 THEN 1 ELSE 0
      [] nb = 5  -> IF vx >= vy THEN 1 ELSE 0
      [] nb = 6  -> vx % 2
      [] nb = 7  -> IF vy >= vx THEN 1 ELSE 0
      [] nb = 14 -> vx \div 128

C9_Value(nb, vx, vy) ==
    CASE nb = 4  -> (vx + vy) % 256
      [] nb = 5  -> (vx - vy) % 256
      [] nb = 6  -> vx \div 2
      [] nb = 7  -> (vy - vx) % 256
      [] nb = 14 -> (vx * 2) % 256

C9_AluStep ==
    (Step /\ IsFlagAlu(Fetched)) =>
        LET x  == decode_x(Fetched)
            y  == decode_y(Fetched)
            nb == decode_nibb(Fetched)
        IN  /\ v'[15] = C9_Flag(nb, v[x], v[y])
            /\ x # 15 => v'[x] = C9_Value(nb, v[x], v[y])

\* C9: every flag-producing ALU step leaves the documented flag in VF.
C9_FlagAfterAlu == [][C9_AluStep]_vars

\* ------------------------------------------------------------------------
\* C10.  Draw collision.  A pair of draws: the last two steps were the same
\* Dxyn, both Ok, with the same I and the same coordinates.
\* ------------------------------------------------------------------------
DrawnOnce ==
    /\ Len(hist) > 0
    /\ IsDraw(hist[1].opcode)
    /\ hist[1].result = OK
    /\ result = OK

DrawnTwice ==
    /\ Len(hist) = 2
    /\ DrawnOnce
    /\ hist[2].opcode = hist[1].opcode
    /\ hist[2].result = OK
    /\ hist[2].i = hist[1].i
    /\ hist[2].v[decode_x(hist[1].opcode)] = hist[1].v[decode_x(hist[1].opcode)]
    /\ hist[2].v[decode_y(hist[1].opcode)] = hist[1].v[decode_y(hist[1].opcode)]

\* The sprite of the latest draw has a set bit: a non-zero byte among its rows.
SpriteHasPixel ==
    \E n \in 0..(decode_nibb(hist[1].opcode) - 1) : mem_read(memory, hist[1].i + n) # 0

\* C10 as stated: a draw over an all-clear framebuffer yields VF = 0; the same
\* sprite drawn a second time at the same coordinates turns every affected
\* pixel off again (the framebuffer is what it was before the first draw) and
\* yields VF = 1, for every sprite of height 0..15.
C10_SecondDrawAlwaysCollides ==
    /\ (DrawnOnce /\ hist[1].buffer = display_clear) => v[15] = 0
    /\ (DrawnTwice /\ hist[2].buffer = display_clear) =>
          (buffer = display_clear /\ v[15] = 1)

\* C10, amended: a draw over an all-clear framebuffer yields VF = 0; the same
\* sprite drawn a second time at the same coordinates restores the framebuffer
\* to what it was before the first draw, whatever that was, and yields VF = 1
\* exactly when the first draw turned a pixel on.  After a first draw over an
\* all-clear framebuffer that is: exactly when the sprite has a set bit (VF = 0
\* for height 0 and for rows that are all zero).
C10_SecondDrawRestores ==
    /\ (DrawnOnce /\ hist[1].buffer = display_clear) => v[15] = 0
    /\ DrawnTwice =>
          /\ buffer = hist[2].buffer
          /\ v[15] = IF hist[1].buffer \ hist[2].buffer # {} THEN 1 ELSE 0
    /\ (DrawnTwice /\ hist[2].buffer = display_clear) =>
          v[15] = IF SpriteHasPixel THEN 1 ELSE 0

C10_Witness ==
    /\ DrawnTwice
    /\ SpriteHasPixel
    /\ decode_nibb(hist[1].opcode) = 15
    /\ hist[1].v[decode_x(hist[1].opcode)] = 60
    /\ hist[2].buffer = display_clear
    /\ hist[1].buffer # display_clear
    /\ buffer = hist[2].buffer
    /\ v[15] = 1

\* ------------------------------------------------------------------------
\* C11.  Pixel addressing wraps: a draw at (Vx, Vy) leaves the framebuffer and
\* the VF that the same draw at (Vx mod 64, Vy mod 32) leaves, and no pixel it
\* toggles is outside the 64 x 32 grid.
\* ------------------------------------------------------------------------
Pixels == 0..(DISPLAY_WIDTH * DISPLAY_HEIGHT - 1)

\* The state Dxyn leaves when it draws at (x, y) from the current state.
DrawnAt(x, y) ==
    draw_rows([Cur EXCEPT !.pc = pc + 2, !.result = OK],
              [buffer |-> buffer, flag |-> FALSE], x, y, 0, decode_nibb(Fetched))

C11_DrawStep ==
    (Step /\ IsDraw(Fetched)) =>
        LET wrapped == DrawnAt(v[decode_x(Fetched)] % DISPLAY_WIDTH,
                               v[decode_y(Fetched)] % DISPLAY_HEIGHT)
        IN  /\ buffer' = wrapped.buffer
            /\ result' = wrapped.result
            /\ v' = wrapped.v
            /\ buffer' \subseteq Pixels

\* C11: every draw is the draw at the wrapped coordinates and stays in the grid.
C11_DrawWraps == [][C11_DrawStep]_vars

\* A draw of a 15-row glyph sprite at (64, 32) or beyond has lit pixels.
C11_Witness ==
    /\ DrawnOnce
    /\ hist[1].v[decode_x(hist[1].opcode)] >= DISPLAY_WIDTH
    /\ hist[1].v[decode_y(hist[1].opcode)] >= DISPLAY_HEIGHT
    /\ decode_nibb(hist[1].opcode) = 15
    /\ hist[1].buffer = display_clear
    /\ buffer # display_clear

\* ------------------------------------------------------------------------
\* C12.  Draw pixel mapping: a draw of height h that returns Ok toggles, for
\* each row r < h and column c < 8, the pixel ((Vx + c) mod 64, (Vy + r) mod 32)
\* with bit 7 - c of memory[I + r]; each pixel becomes old XOR bit; VF is 1 iff
\* a bit of 1 met a lit pixel, else 0; all other pixels, the other registers, I
\* and memory are unchanged.
\* ------------------------------------------------------------------------
SpriteCells == (0..(decode_nibb(Fetched) - 1)) \X (0..7)

SpriteBit(rc) == Bit(mem_read(memory, i + rc[1]), 7 - rc[2])

\* The pixel that row rc[1], column rc[2] of the sprite lands on.
SpritePixel(rc) ==
    ((v[decode_y(Fetched)] + rc[1]) % DISPLAY_HEIGHT) * DISPLAY_WIDTH
        + ((v[decode_x(Fetched)] + rc[2]) % DISPLAY_WIDTH)

\* The pixels that meet a bit of 1.  No two cells land on the same pixel, so
\* a pixel is toggled at most once and old XOR bit is: flipped iff in this set.
SpriteOnes == {SpritePixel(rc) : rc \in {c \in SpriteCells : SpriteBit(c) = 1}}

C12_DrawStep ==
    (Step /\ IsDraw(Fetched) /\ result' = OK) =>
        /\ Cardinality({SpritePixel(rc) : rc \in SpriteCells}) = Cardinality(SpriteCells)
        /\ buffer' = (buffer \ SpriteOnes) \cup (SpriteOnes \ buffer)
        /\ v'[15] = IF SpriteOnes \cap buffer # {} THEN 1 ELSE 0
        /\ \A k \in 0..(NUM_REGISTERS - 2) : v'[k] = v[k]
        /\ i' = i
        /\ memory' = memory
        /\ pc' = pc + 2

\* C12: every successful draw toggles exactly the sprite's pixels, MSB leftmost.
C12_DrawPixelMapping == [][C12_DrawStep]_vars

\* The glyph 0 (rows F0 90 90 90 F0) drawn over itself shifted: some pixels go
\* off, some go on, VF = 1.
C12_Witness ==
    /\ DrawnOnce
    /\ hist[1].i = 0
    /\ decode_nibb(hist[1].opcode) = 5
    /\ v[15] = 1
    /\ hist[1].buffer \ buffer # {}
    /\ buffer \ hist[1].buffer # {}

\* ------------------------------------------------------------------------
\* C13.  BCD store: after an Fx33 that returns Ok, memory[I], memory[I + 1] and
\* memory[I + 2] are the hundreds, tens and ones digits of Vx (each in 0..9,
\* 100 * memory[I] + 10 * memory[I + 1] + memory[I + 2] = Vx), and no other
\* memory byte, no register and not I is changed.
\* ------------------------------------------------------------------------
IsFx(opcode, kk) == opcode >= 0 /\ opcode \div 4096 = 15 /\ decode_byte(opcode) = kk

C13_BcdStep ==
    (Step /\ IsFx(Fetched, 51) /\ result' = OK) =>
        LET x == decode_x(Fetched)
            digit(k) == mem_read(memory', i + k)
        IN  /\ \A k \in 0..2 : digit(k) \in 0..9
            /\ 100 * digit(0) + 10 * digit(1) + digit(2) = v[x]
            /\ \A a \in DOMAIN memory \cup DOMAIN memory' :
                   a \notin i..(i + 2) => mem_read(memory', a) = mem_read(memory, a)
            /\ v' = v
            /\ i' = i

\* C13: every successful Fx33 stores the three decimal digits of Vx.
C13_BcdDigits == [][C13_BcdStep]_vars

\* ------------------------------------------------------------------------
\* C14.  Font character address: Fx29 sets I to 5 * (Vx mod 16), the offset of
\* the glyph of the low nibble of Vx, which is inside the font table [0, 0x50).
\* ------------------------------------------------------------------------
C14_FontStep ==
    (Step /\ IsFx(Fetched, 41)) =>
        /\ i' = FONT_SIZE * (v[decode_x(Fetched)] % 16)
        /\ i' < Len(FONTS)

\* C14: every Fx29 leaves I at a glyph of the font table.
C14_FontAddressInTable == [][C14_FontStep]_vars

\* ------------------------------------------------------------------------
\* C15.  Timers floor at zero: a step() of either countdown takes exactly 1 off
\* a value above 0 and leaves 0 at 0, so the value never goes below zero; after
\* a write of w and k step() calls with no write between, the value is
\* max(w - k, 0); a step() of one countdown never changes the other.
\* ------------------------------------------------------------------------
Max(a, b) == IF a >= b THEN a ELSE b

\* The value of a countdown that was written w and has stepped k times since
\* (k = MaxTicks stands for MaxTicks or more).
C15_Counted(value, w, k) ==
    /\ value \in 0..(U8 - 1)
    /\ (w # NOT_WRITTEN /\ k < MaxTicks) => value = Max(w - k, 0)
    /\ (w # NOT_WRITTEN /\ k = MaxTicks) => value <= Max(w - k, 0)

C15_Countdowns ==
    /\ C15_Counted(timer, written.delay, ticks.delay)
    /\ C15_Counted(sound, written.sound, ticks.sound)

C15_TickStep ==
    /\ TimerStep => (timer' = (IF timer > 0 THEN timer - 1 ELSE 0) /\ sound' = sound)
    /\ SoundStep => (sound' = (IF sound > 0 THEN sound - 1 ELSE 0) /\ timer' = timer)

\* C15: both countdowns count down by one and stop at zero.
C15_TimersFloorAtZero == [](C15_Countdowns) /\ [][C15_TickStep]_vars

\* The delay timer was written 2 and has stepped three times, once at zero;
\* the sound timer was written 2 and has stepped once.
C15_Witness ==
    /\ written.delay = 2
    /\ ticks.delay = 3
    /\ timer = 0
    /\ written.sound = 2
    /\ ticks.sound = 1
    /\ sound = 1

\* ------------------------------------------------------------------------
\* C16.  Unrecognized sub-opcodes are no-ops: a step of 0nnn other than 00E0 and
\* 00EE, of 5xyN or 9xyN with N # 0, of 8xyN with N in 8..D or F, of Exkk with
\* kk not 9E or A1, or of Fxkk with kk outside the defined set returns Ok,
\* advances pc by exactly 2 and changes nothing else.
\* ------------------------------------------------------------------------
Unrecognized(opcode) ==
    /\ opcode >= 0
    /\ LET class == opcode \div 4096
           nb    == decode_nibb(opcode)
           kk    == decode_byte(opcode)
       IN  \/ class = 0 /\ opcode \notin {224, 238}
           \/ class \in {5, 9} /\ nb # 0
           \/ class = 8 /\ nb \in {8, 9, 10, 11, 12, 13, 15}
           \/ class = 14 /\ kk \notin {158, 161}
           \/ class = 15 /\ kk \notin {7, 10, 21, 24, 30, 41, 51, 85, 101}

C16_NoopStep ==
    (Step /\ Unrecognized(Fetched)) =>
        /\ result' = OK
        /\ pc' = pc + 2
        /\ UNCHANGED << i, sp, v, memory, stack, timer, sound, buffer, keys,
                        polling, last_pressed >>

\* C16: every step of an undefined opcode only advances pc by 2.
C16_UndefinedOpcodeIsNoop == [][C16_NoopStep]_vars

\* 5xy1 with Vx = Vy was stepped (a 5xy0 would have skipped) from a state with
\* a call outstanding, a lit display, running timers and a latched key.
C16_Witness ==
    /\ Len(hist) > 0
    /\ hist[1].opcode = SER(0, 1) + 1
    /\ hist[1].v[0] = hist[1].v[1]
    /\ pc = hist[1].pc + 2
    /\ sp = 1
    /\ buffer # display_clear
    /\ timer = 2
    /\ last_pressed = 15

\* ------------------------------------------------------------------------
\* C17.  Input latch set: set(key, pressed) sets that key's boolean to pressed;
\* it latches the key only if pressed is true and no key is latched, so a later
\* press never replaces the latched key and a release never clears the latch;
\* is_pressed(key) is the key's current boolean whatever the latch holds.
\* ------------------------------------------------------------------------
C17_SetKeyStep ==
    SetKey =>
        \E key \in 0..(NUM_KEYS - 1), pressed \in BOOLEAN :
            /\ keys' = [keys EXCEPT ![key] = pressed]
            /\ last_pressed' = IF pressed /\ last_pressed < 0 THEN key ELSE last_pressed
            /\ polling' = polling

IsSkipOnKey(opcode) ==
    opcode >= 0 /\ opcode \div 4096 = 14 /\ decode_byte(opcode) \in {158, 161}

C17_IsPressedStep ==
    (Step /\ IsSkipOnKey(Fetched) /\ v[decode_x(Fetched)] < NUM_KEYS) =>
        LET is_pressed == keys[v[decode_x(Fetched)]]
            skips == IF decode_byte(Fetched) = 158 THEN is_pressed ELSE ~is_pressed
        IN  /\ pc' = IF skips THEN pc + 4 ELSE pc + 2
            /\ UNCHANGED << keys, polling, last_pressed >>

\* C17: every key event and every key test behaves as stated above.
C17_FirstPressWins == [][C17_SetKeyStep /\ C17_IsPressedStep]_vars

\* Key 0 is latched and released, key 15 went down later and is held, and
\* SKP on key 15 has skipped.
C17_Witness ==
    /\ last_pressed = 0
    /\ ~keys[0]
    /\ keys[15]
    /\ Len(hist) > 0
    /\ hist[1].opcode = SKP(1)
    /\ hist[1].v[1] = 15
    /\ pc = hist[1].pc + 4

\* ------------------------------------------------------------------------
\* C18.  Input latch poll, as Fx0A calls it: with no request pending the call
\* marks the request pending and reports not-ready, leaving the latch as it is;
\* with a request pending and a key latched it reports ready with exactly that
\* key and clears the pending flag and the latch; with a request pending and no
\* key latched it reports not-ready and stays pending.  So every ready result
\* comes right after a not-ready poll of the same instruction.
\* ------------------------------------------------------------------------
C18_NotReady ==
    /\ pc' = pc
    /\ v' = v
    /\ polling'
    /\ last_pressed' = last_pressed

C18_Ready ==
    /\ pc' = pc + 2
    /\ v' = [v EXCEPT ![decode_x(Fetched)] = last_pressed]
    /\ ~polling'
    /\ last_pressed' = -1

C18_PollStep ==
    (Step /\ IsBlockForKey(Fetched)) =>
        /\ IF polling /\ last_pressed >= 0 THEN C18_Ready ELSE C18_NotReady
        /\ C18_Ready =>
              /\ Len(hist) > 0
              /\ hist[1].opcode = Fetched
              /\ hist[1].pc = pc
              /\ hist[1].v = v

\* C18: every poll follows the one-shot protocol.
C18_OneShotPoll == [][C18_PollStep]_vars

\* Fx0A reported not-ready and then ready with key 15.
C18_Witness ==
    /\ Len(hist) = 2
    /\ IsBlockForKey(hist[1].opcode)
    /\ hist[2].opcode = hist[1].opcode
    /\ hist[2].pc = hist[1].pc
    /\ pc = hist[1].pc + 2
    /\ v[decode_x(hist[1].opcode)] = 15
    /\ ~polling
    /\ last_pressed = -1

\* ------------------------------------------------------------------------
\* C19.  Driver frame cadence: in every iteration of the loop the input events
\* are applied first, then each countdown is stepped exactly once, then step()
\* is called exactly opts.tps times (a failing step does not end or shorten the
\* iteration), then the framebuffer is rendered; so a value w written to the
\* delay timer is read back as max(w - j, 0) by an Fx07 stepped j iterations
\* later (j = 0: unchanged in the same iteration).  An iteration is one that
\* Quit or Escape does not end among its events.
\* ------------------------------------------------------------------------
Tally(t, s, n) == [timer |-> t, sound |-> s, steps |-> n]

C19_Cadence ==
    /\ LoopKeyEvent => tally = Tally(0, 0, 0)
    /\ LoopQuit => tally = Tally(0, 0, 0)
    /\ LoopTimerStep => tally = Tally(0, 0, 0)
    /\ LoopSoundStep => tally = Tally(1, 0, 0)
    /\ LoopStep => (tally.timer = 1 /\ tally.sound = 1 /\ tally.steps < tps)
    /\ LoopRender => tally = Tally(1, 1, tps)

C19_FailingStepGoesOn ==
    (LoopStep /\ result' \in StepErrors) =>
        /\ phase' = AT_STEPS
        /\ tally'.steps = tally.steps + 1
        /\ steps_done' = steps_done + 1

C19_DelayRead ==
    (LoopStep /\ IsFx(Fetched, 7) /\ written.delay # NOT_WRITTEN /\ age < MaxTicks) =>
        v'[decode_x(Fetched)] = Max(written.delay - age, 0)

\* C19: every iteration is events, one tick of each countdown, tps steps, render.
C19_FrameCadence == [][C19_Cadence /\ C19_FailingStepGoesOn /\ C19_DelayRead]_vars

\* Two iterations after the delay timer was written 3, Fx07 has read 1 and the
\* RET after it has failed, with steps of the iteration still to come.
C19_Witness ==
    /\ Len(hist) = 2
    /\ IsFx(hist[2].opcode, 7)
    /\ hist[1].opcode = RET
    /\ hist[1].result \in StepErrors
    /\ written.delay = 3
    /\ age = 2
    /\ v[4] = 1
    /\ phase = AT_STEPS
    /\ steps_done < tps

\* ------------------------------------------------------------------------
\* C20.  Single in-flight blocking request: whenever the pending flag is set,
\* pc points at the Fx0A that set it (the step before was that instruction);
\* no other instruction is stepped while the flag is set, and the flag is clear
\* as soon as that Fx0A completes.
\* ------------------------------------------------------------------------
C20_PendingAtBlockForKey ==
    polling =>
        /\ IsBlockForKey(Fetched)
        /\ Len(hist) > 0
        /\ hist[1].opcode = Fetched
        /\ hist[1].pc = pc

C20_PendingStep ==
    /\ (Step /\ polling) => IsBlockForKey(Fetched)
    /\ (Step /\ IsBlockForKey(Fetched) /\ pc' # pc) => ~polling'

\* C20: a pending request belongs to the Fx0A at pc, always.
C20_SingleBlockingRequest == [](C20_PendingAtBlockForKey) /\ [][C20_PendingStep]_vars

\* The same Fx0A has been stepped twice, the request is pending and a key is
\* latched for it.
C20_Witness ==
    /\ polling
    /\ last_pressed = 15
    /\ Len(hist) = 2
    /\ IsBlockForKey(hist[1].opcode)
    /\ hist[2].opcode = hist[1].opcode
    /\ hist[2].pc = pc
    /\ hist[1].pc = pc

====
